---- MODULE Spec2Model ----
(***************************************************************************)
(* Model of the dashboard event bus (src/Research/dashboard.py): the       *)
(* EventBus class (subscribe / unsubscribe / push under one lock), the     *)
(* per-connection SSE delivery loop _DashboardHandler._serve_sse, and the  *)
(* producer threads that call push.  Every statement that runs under, or   *)
(* waits for, the bus lock is one step of its thread, so the interleavings *)
(* of producer and handler threads are the ones the lock admits.           *)
(***************************************************************************)
EXTENDS Integers, Sequences, FiniteSets, TLC

(***************************************************************************)
(* Bounds of the model.  HISTORY_SIZE and MAILBOX_SIZE stand for the       *)
(* source's _HISTORY_SIZE = 200 (line 31) and Queue(maxsize=512) (line 44),*)
(* scaled down with their order kept (history bound < mailbox capacity).   *)
(***************************************************************************)
HISTORY_SIZE == 2
MAILBOX_SIZE == 3
MaxPublish == 5

Producers == {"p1", "p2"}
Conns == {"c1", "c2"}
NoThread == "none"

\* The threads of one run: two producers publishing to one streaming client,
\* or one producer publishing to two streaming clients.  A thread that is not
\* of the run stays "absent".
Populations == { Producers \cup {"c1"}, {"p1"} \cup Conns }

\* ------------------------------------------------------------------------
\* Payloads and their serialization (json.dumps(data, default=str), line 61;
\* json.loads(edata) and the frame's json.dumps, line 452).
\* "plain" is a JSON-serializable value, "object" a value json cannot encode
\* that default=str turns into its string, "cyclic" a self-referencing
\* container, for which json.dumps raises ValueError.
Payloads == {"plain", "object", "cyclic"}

\* What each producer thread publishes: its own kind of event, or one whose
\* payload cannot be serialized.
EventInputs(p) ==
    { IF p = "p1" THEN [type |-> "code_input", data |-> "plain"]
                  ELSE [type |-> "chart", data |-> "object"],
      [type |-> "status", data |-> "cyclic"] }

JsonRaises(data) == data = "cyclic"

JsonDumps(data) ==
    IF data = "object" THEN <<"json", "str(object)">> ELSE <<"json", data>>

JsonLoads(text) == text[2]

\* The value a client decodes from the frame of a payload published as data.
WireData(data) == IF data = "object" THEN "str(object)" ELSE data

\* ------------------------------------------------------------------------
\* Sequence helpers.
SeqMap(F(_), s) == [i \in 1..Len(s) |-> F(s[i])]

Range(s) == {s[i] : i \in 1..Len(s)}

IdOf(r) == r.id

Ids(s) == SeqMap(IdOf, s)

StrictlyIncreasing(s) == \A i \in 1..Len(s) : \A j \in 1..Len(s) : i < j => s[i] < s[j]

\* Mutant of ListRemove: the last channel of the list is removed.
ListDropLast(s, x) == IF s = <<>> THEN s ELSE SubSeq(s, 1, Len(s) - 1)

\* list.remove(x): removes the first occurrence; ValueError when absent,
\* which unsubscribe swallows (lines 55-58).
ListRemove(s, x) ==
    IF x \in Range(s)
    THEN LET i == CHOOSE k \in 1..Len(s) : s[k] = x /\ \A j \in 1..(k-1) : s[j] # x
         IN SubSeq(s, 1, i - 1) \o SubSeq(s, i + 1, Len(s))
    ELSE s

\* Mutant of TrimHistory: the slice keeps the oldest records, h[:N].
TrimKeepsOldest(h) ==
    IF Len(h) > HISTORY_SIZE THEN SubSeq(h, 1, HISTORY_SIZE) ELSE h

\* Mutant of TrimHistory: the history is never trimmed.
TrimNever(h) == h

\* self._history[-_HISTORY_SIZE:] when len(self._history) > _HISTORY_SIZE.
TrimHistory(h) ==
    IF Len(h) > HISTORY_SIZE
    THEN SubSeq(h, Len(h) - HISTORY_SIZE + 1, Len(h))
    ELSE h

\* ------------------------------------------------------------------------
\* The resume cursor of a stream connect (lines 427-438).  A string is a
\* sequence of characters; "sup2" is the superscript digit two, for which
\* str.isdigit() is true and int() raises ValueError.
AsciiDigits == {"0", "1", "2", "3", "4", "5"}
DigitChars == AsciiDigits \cup {"sup2"}

IsDigit(s) == Len(s) > 0 /\ \A i \in 1..Len(s) : s[i] \in DigitChars

DigitValue(ch) ==
    CASE ch = "0" -> 0 [] ch = "1" -> 1 [] ch = "2" -> 2
      [] ch = "3" -> 3 [] ch = "4" -> 4 [] ch = "5" -> 5 [] OTHER -> 0

RECURSIVE ToInt(_)
ToInt(s) == IF s = <<>> THEN 0 ELSE 10 * ToInt(SubSeq(s, 1, Len(s) - 1)) + DigitValue(s[Len(s)])

IntRaises(s) == \E i \in 1..Len(s) : s[i] \notin AsciiDigits

CursorStrings ==
    { <<>>, <<"x">>, <<"sup2">> } \cup { <<d>> : d \in {"0", "1", "2"} }

\* A request path is a sequence of pieces: "/", a name, "?", "&", the text
\* "last_event_id=" or "k=" that opens a parameter, and the characters of a
\* parameter's value.  "/events" is <<"/", "events">>, and "/eventsx" is
\* <<"/", "events", "x">>.
EventsPath == <<"/", "events">>

PathWithCursor(v) == EventsPath \o <<"?", "last_event_id=">> \o v

\* s.startswith(prefix)
StartsWith(s, prefix) ==
    Len(s) >= Len(prefix) /\ SubSeq(s, 1, Len(prefix)) = prefix

\* The position of the first piece tok in s, 0 when there is none.
IndexOf(s, tok) ==
    IF \E i \in 1..Len(s) : s[i] = tok
    THEN CHOOSE i \in 1..Len(s) : s[i] = tok /\ \A j \in 1..(i - 1) : s[j] # tok
    ELSE 0

\* s.split(sep)
RECURSIVE Split(_, _)
Split(s, sep) ==
    LET i == IndexOf(s, sep)
    IN IF i = 0 THEN <<s>>
       ELSE <<SubSeq(s, 1, i - 1)>> \o Split(SubSeq(s, i + 1, Len(s)), sep)

\* lines 433-437: the values of the last_event_id parameters of the query
\* string for which isdigit() holds, in the order of the query string.
IsCursorParam(param) == param # <<>> /\ param[1] = "last_event_id=" /\ IsDigit(Tail(param))

DigitCursors(path) ==
    LET qs == SubSeq(path, IndexOf(path, "?") + 1, Len(path))
    IN SeqMap(Tail, SelectSeq(Split(qs, "&"), IsCursorParam))

\* The value of the last_event_id query parameter that decides the cursor
\* (NoQuery when the path has no "?"): the loop of lines 434-438 assigns
\* last_id for each parameter whose value passes isdigit(), so the last one
\* stands, unless int() raises for one, which ends the loop there; with no
\* such parameter the query string leaves last_id as it is.
NoQuery == <<"?">>

QueryCursor(path) ==
    IF IndexOf(path, "?") = 0 THEN NoQuery
    ELSE LET vals == DigitCursors(path)
         IN IF vals = <<>> THEN <<>>
            ELSE IF \E i \in 1..Len(vals) : IntRaises(vals[i])
                 THEN vals[CHOOSE i \in 1..Len(vals) : IntRaises(vals[i])]
                 ELSE vals[Len(vals)]

\* The requests for /events of the model: the Last-Event-ID header ("" when
\* absent) and the request path.
Requests ==
    { [hdr |-> h, path |-> EventsPath] : h \in CursorStrings }
    \cup { [hdr |-> <<>>, path |-> PathWithCursor(<<"x">>)],
           [hdr |-> <<>>, path |-> PathWithCursor(<<"1">>)],
           [hdr |-> <<"2">>, path |-> PathWithCursor(<<"1">>)],
           [hdr |-> <<"1">>, path |-> PathWithCursor(<<"x">>)] }

ParseRaises(hdr, qs) ==
    \/ IsDigit(hdr) /\ IntRaises(hdr)
    \/ qs # NoQuery /\ IsDigit(qs) /\ IntRaises(qs)

ParseLastId(hdr, qs) ==
    LET fromHeader == IF IsDigit(hdr) THEN ToInt(hdr) ELSE 0
    IN IF qs # NoQuery /\ IsDigit(qs) THEN ToInt(qs) ELSE fromHeader

\* ------------------------------------------------------------------------
VARIABLES
    lock,         \* EventBus._lock: the thread holding it, or NoThread
    subscribers,  \* EventBus._subscribers: list of mailboxes, by connection
    history,      \* EventBus._history: list of (id, type, data_json)
    next_id,      \* EventBus._next_id
    mailbox,      \* the queue.Queue of each connection
    ppc,          \* each producer's position in push
    plocal,       \* push's locals: event_type, data_json, eid, the list copy
    cpc,          \* each handler thread's position in _serve_sse
    clocal,       \* _serve_sse's locals and the connection's history variables
    stream,       \* the event frames written to each connection's client
    log,          \* history variable: every event appended, never trimmed
    started,      \* history variable: push calls that passed serialization
    dropped,      \* history variable: ids dropped on a full mailbox
    server,       \* _server: NoServer, or the listener recorded (by its port)
    port,         \* _port
    listeners,    \* the listening sockets this process has opened, by port
    loops,        \* the listeners whose accept loop thread was started
    inuse,        \* the ports other processes occupy
    spc,          \* each calling thread's position in start
    slocal,       \* start's arguments, loop variable and returned value
    overlap       \* history variable: a start call began during another one

vars == <<lock, subscribers, history, next_id, mailbox, ppc, plocal, cpc, clocal,
          stream, log, started, dropped,
          server, port, listeners, loops, inuse, spc, slocal, overlap>>

\* The event bus and its threads; the server lifecycle (start).
coreVars == <<lock, subscribers, history, next_id, mailbox, ppc, plocal, cpc, clocal,
              stream, log, started, dropped>>
srvVars == <<server, port, listeners, loops, inuse, spc, slocal, overlap>>

busVars == <<subscribers, history, next_id>>
ghostVars == <<log, started, dropped>>

NoItem == [id |-> 0, type |-> "none", data |-> <<>>]
NoResume == 0 - 1

InitPLocal ==
    [event_type |-> "none", data |-> "none", data_json |-> <<>>, eid |-> 0, qs |-> <<>>]

\* last_id, idx, item: locals of subscribe and _serve_sse.  exit: how the loop
\* was left.  The rest are history variables: base, the first id the
\* subscription is owed (0: it registered before any id was assigned);
\* resume, the cursor k of a reconnect that presents the last id the client
\* received, while every id > k is still retained (NoResume otherwise); seen,
\* once the handler has returned, the last id its client received; numeric
\* and exact, while subscribe runs: the request supplied a cursor that passes
\* isdigit(), and its path is "/events" alone or followed by a query string.
InitCLocal ==
    [last_id |-> 0, idx |-> 0, item |-> NoItem, exit |-> "none",
     base |-> 0, resume |-> NoResume, seen |-> 0,
     numeric |-> FALSE, exact |-> FALSE, peer |-> "open"]

\* The bus as EventBus() constructs it (line 76), and the threads of the run.
BusInitOf(pop) ==
    /\ lock = NoThread
    /\ subscribers = <<>>
    /\ history = <<>>
    /\ next_id = 1
    /\ mailbox = [c \in Conns |-> <<>>]
    /\ ppc = [p \in Producers |-> IF p \in pop THEN "idle" ELSE "absent"]
    /\ cpc = [c \in Conns |-> IF c \in pop THEN "closed" ELSE "absent"]
    /\ plocal = [p \in Producers |-> InitPLocal]
    /\ clocal = [c \in Conns |-> InitCLocal]
    /\ stream = [c \in Conns |-> <<>>]
    /\ log = <<>>
    /\ started = 0
    /\ dropped = [c \in Conns |-> {}]

BusInit == \E pop \in Populations : BusInitOf(pop)

\* ------------------------------------------------------------------------
\* The server lifecycle: the module globals _server and _port (lines
\* 472-473) and start (lines 476-499).  A listener is named by the port it
\* is bound to.  MaxPort bounds the port numbers of the model.
MaxPort == 3
Ports == 1..MaxPort
Starters == {"s1", "s2"}

\* _server = None (line 472); the value None that start returns (line 499).
NoServer == 0
NoneRet == 0 - 1

\* port_start, port_end, port: start's arguments and loop variable; ret, the
\* value the thread's last call returned, once done.  fresh is a history
\* variable: the call found the server unstarted at line 483.
InitSLocal ==
    [port_start |-> 0, port_end |-> 0, port |-> 0, ret |-> NoneRet,
     done |-> FALSE, fresh |-> FALSE]

ServerInit(occupied) ==
    /\ server = NoServer
    /\ port = 0
    /\ listeners = {}
    /\ loops = {}
    /\ inuse = occupied
    /\ spc = [t \in Starters |-> "idle"]
    /\ slocal = [t \in Starters |-> InitSLocal]
    /\ overlap = FALSE

Init == BusInit /\ ServerInit({})

\* ------------------------------------------------------------------------
\* Mutants of the lock: push, or subscribe, does not take it.
PushUnlocked == TRUE
SubscribeUnlocked == TRUE

\* The lock: "with self._lock" enters when no thread holds it.
PushLockFree == lock = NoThread
SubscribeLockFree == lock = NoThread
UnsubscribeLockFree == lock = NoThread

\* ------------------------------------------------------------------------
\* EventBus.push (lines 60-73)

\* Mutant of NextIdOnRaise: the id is taken before the payload is serialized.
NextIdConsumed(n) == n + 1

\* line 61 raises before lines 63-64 are reached: _next_id keeps its value.
NextIdOnRaise(n) == n

\* line 61: serialize outside the lock; a ValueError leaves push at once.
PushCall(p, ev) ==
    /\ ppc[p] \in {"idle", "raised"}
    /\ started < MaxPublish
    /\ IF JsonRaises(ev.data)
       THEN /\ ppc' = [ppc EXCEPT ![p] = "raised"]
            /\ next_id' = NextIdOnRaise(next_id)
            /\ UNCHANGED <<plocal, started>>
       ELSE /\ ppc' = [ppc EXCEPT ![p] = "L62"]
            /\ plocal' = [plocal EXCEPT ![p] =
                   [event_type |-> ev.type, data |-> ev.data,
                    data_json |-> JsonDumps(ev.data), eid |-> 0, qs |-> <<>>]]
            /\ started' = started + 1
            /\ UNCHANGED next_id
    /\ UNCHANGED <<lock, subscribers, history, mailbox, cpc, clocal, stream, log, dropped>>
    /\ UNCHANGED srvVars

\* line 62
PushAcquire(p) ==
    /\ ppc[p] = "L62"
    /\ PushLockFree
    /\ lock' = p
    /\ ppc' = [ppc EXCEPT ![p] = "L63"]
    /\ UNCHANGED <<busVars, mailbox, plocal, cpc, clocal, stream, ghostVars>>
    /\ UNCHANGED srvVars

\* Mutant of NextIdAfter: the next id is taken from the length of the history.
NextIdFromHistory(n) == Len(history) + 2

\* line 64: self._next_id += 1
NextIdAfter(n) == n + 1

\* lines 63-64: eid = self._next_id; self._next_id += 1
PushStamp(p) ==
    /\ ppc[p] = "L63"
    /\ plocal' = [plocal EXCEPT ![p].eid = next_id]
    /\ next_id' = NextIdAfter(next_id)
    /\ ppc' = [ppc EXCEPT ![p] = "L65"]
    /\ UNCHANGED <<lock, subscribers, history, mailbox, cpc, clocal, stream, ghostVars>>
    /\ UNCHANGED srvVars

\* Mutant of PushRecord: the tuple is built from self._next_id, not from eid.
PushRecordStale(p) ==
    [id |-> next_id, type |-> plocal[p].event_type, data |-> plocal[p].data_json]

\* the tuple (eid, event_type, data_json) of lines 65 and 71
PushRecord(p) ==
    [id |-> plocal[p].eid, type |-> plocal[p].event_type, data |-> plocal[p].data_json]

\* lines 65-68: self._history.append(...), then the trim
PushAppend(p) ==
    /\ ppc[p] = "L65"
    /\ history' = TrimHistory(Append(history, PushRecord(p)))
    /\ log' = Append(log, [id |-> plocal[p].eid, type |-> plocal[p].event_type,
                           data |-> plocal[p].data])
    /\ ppc' = [ppc EXCEPT ![p] = "L69"]
    /\ UNCHANGED <<lock, subscribers, next_id, mailbox, plocal, cpc, clocal, stream,
                   started, dropped>>
    /\ UNCHANGED srvVars

\* Mutant of FanOutList: a subscriber that lost a record to a full mailbox
\* is left out of the fan-out from then on.
FanOutSkipsDropped(subs) == LET Kept(q) == dropped[q] = {} IN SelectSeq(subs, Kept)

\* line 69: list(self._subscribers), every registered queue in order
FanOutList(subs) == subs

\* line 69: list(self._subscribers)
PushSnapshot(p) ==
    /\ ppc[p] = "L69"
    /\ plocal' = [plocal EXCEPT ![p].qs = FanOutList(subscribers)]
    /\ ppc' = [ppc EXCEPT ![p] = "L70"]
    /\ UNCHANGED <<lock, busVars, mailbox, cpc, clocal, stream, ghostVars>>
    /\ UNCHANGED srvVars

\* q.put_nowait raises queue.Full, and q.put blocks, when the queue holds
\* maxsize items.
QueueFull(q) == Len(mailbox[q]) >= MAILBOX_SIZE

\* Mutant of PutNowaitReady: a blocking q.put in the fan-out.
PutBlocks(q) == ~QueueFull(q)

\* line 71: put_nowait never waits for room in the queue.
PutNowaitReady(q) == TRUE

\* Mutant of SwallowsFull: queue.Full is not caught.
FullPropagates == FALSE

\* Whether push goes on after queue.Full (lines 72-73: except queue.Full: pass).
SwallowsFull == TRUE

\* lines 70-73: one iteration of the fan-out loop
PushPut(p) ==
    /\ ppc[p] = "L70"
    /\ plocal[p].qs # <<>>
    /\ PutNowaitReady(Head(plocal[p].qs))
    /\ LET q == Head(plocal[p].qs)
       IN IF QueueFull(q)
          THEN /\ dropped' = [dropped EXCEPT ![q] = @ \cup {plocal[p].eid}]
               /\ UNCHANGED mailbox
               /\ IF SwallowsFull
                  THEN /\ plocal' = [plocal EXCEPT ![p].qs = Tail(@)]
                       /\ UNCHANGED <<lock, ppc>>
                  ELSE /\ plocal' = [plocal EXCEPT ![p].qs = <<>>]
                       /\ ppc' = [ppc EXCEPT ![p] = "raised"]
                       /\ lock' = NoThread
          ELSE /\ mailbox' = [mailbox EXCEPT ![q] = Append(@, PushRecord(p))]
               /\ plocal' = [plocal EXCEPT ![p].qs = Tail(@)]
               /\ UNCHANGED <<dropped, lock, ppc>>
    /\ UNCHANGED <<busVars, cpc, clocal, stream, log, started>>
    /\ UNCHANGED srvVars

\* the loop is exhausted: leave the with block and return
PushReturn(p) ==
    /\ ppc[p] = "L70"
    /\ plocal[p].qs = <<>>
    /\ lock' = NoThread
    /\ ppc' = [ppc EXCEPT ![p] = "idle"]
    /\ plocal' = [plocal EXCEPT ![p] = InitPLocal]
    /\ UNCHANGED <<busVars, mailbox, cpc, clocal, stream, ghostVars>>
    /\ UNCHANGED srvVars

\* ------------------------------------------------------------------------
\* _DashboardHandler._serve_sse (lines 425-465) with EventBus.subscribe
\* (lines 43-51) and EventBus.unsubscribe (lines 53-58)

\* The path names the event stream endpoint: "/events", alone or followed by
\* a query string.
ExactEvents(path) == path = EventsPath \/ StartsWith(path, EventsPath \o <<"?">>)

\* Further GET requests: the page, paths that are no endpoint, paths that
\* only begin like the stream endpoint, and query strings with several
\* parameters.
OtherRequests ==
    { [hdr |-> <<>>, path |-> q] :
        q \in { <<"/">>,
                <<"/", "index.html">>,
                <<"/", "x">>,
                <<"/", "index.html", "?", "k=", "1">>,
                <<"/", "events", "x">>,
                <<"/", "events", "/", "x", "?", "last_event_id=", "1">>,
                <<"/", "events", "?", "k=", "1">>,
                <<"/", "events", "?", "k=", "1", "&", "last_event_id=", "2">>,
                <<"/", "events", "?", "last_event_id=", "1", "&", "last_event_id=", "x">>,
                <<"/", "events", "?", "last_event_id=", "sup2">> } }
    \cup { [hdr |-> <<"1">>, path |-> <<"/", "x">>] }

\* lines 409-414: do_GET's choice by self.path
Route(path) ==
    IF path = <<"/">> \/ path = <<"/", "index.html">> THEN "html"
    ELSE IF StartsWith(path, EventsPath) THEN "sse"
    ELSE "notfound"

\* lines 427-438 for each request of the model: whether int() raises, the
\* cursor last_id otherwise, and what the request is (numeric, exact).
ParsedCursor ==
    [req \in Requests \cup OtherRequests |->
        LET hdr == req.hdr
            qs == QueryCursor(req.path)
        IN [raises |-> ParseRaises(hdr, qs),
            last_id |-> IF ParseRaises(hdr, qs) THEN 0 ELSE ParseLastId(hdr, qs),
            numeric |-> IsDigit(hdr) \/ (qs # NoQuery /\ IsDigit(qs)),
            exact |-> ExactEvents(req.path)]]

\* lines 427-447 and 44: parse the cursor, send the headers, create the queue.
\* A cursor for which int() raises ends the handler before it subscribes.
Connect(c, req) ==
    LET parsed == ParsedCursor[req]
    IN
    /\ cpc[c] \in {"closed", "done"}
    /\ IF parsed.raises
       THEN /\ cpc' = [cpc EXCEPT ![c] = "done"]
            /\ clocal' = [clocal EXCEPT ![c] =
                   [InitCLocal EXCEPT !.exit = "early", !.seen = clocal[c].seen]]
       ELSE /\ cpc' = [cpc EXCEPT ![c] = "L45"]
            /\ clocal' = [clocal EXCEPT ![c] =
                   [InitCLocal EXCEPT
                       !.last_id = parsed.last_id,
                       !.numeric = parsed.numeric,
                       !.exact = parsed.exact,
                       !.resume = IF /\ cpc[c] = "done"
                                     /\ clocal[c].seen > 0
                                     /\ parsed.last_id = clocal[c].seen
                                  THEN clocal[c].seen ELSE NoResume]]
    /\ UNCHANGED <<lock, busVars, mailbox, ppc, plocal, stream, ghostVars>>
    /\ UNCHANGED srvVars

\* Every id above k that has been assigned is still in the history.
Retained(k) == \A i \in (k + 1)..(next_id - 1) : \E j \in 1..Len(history) : history[j].id = i

\* line 45
SubAcquire(c) ==
    /\ cpc[c] = "L45"
    /\ SubscribeLockFree
    /\ lock' = c
    /\ cpc' = [cpc EXCEPT ![c] = "L47"]
    /\ clocal' = [clocal EXCEPT
           ![c].idx = 1,
           ![c].resume = IF @ # NoResume /\ Retained(@) THEN @ ELSE NoResume]
    /\ UNCHANGED <<busVars, mailbox, ppc, plocal, stream, ghostVars>>
    /\ UNCHANGED srvVars

\* Mutants of Replays: the record at the cursor is replayed again; the record
\* after the cursor is skipped.
ReplaysFromCursor(eid, last_event_id) == eid >= last_event_id
ReplaysSkipsNext(eid, last_event_id) == eid > last_event_id + 1

\* Mutant of Replays: nothing is replayed to a cursor that lies before the
\* retained window.
ReplaysInWindowOnly(eid, last_event_id) ==
    eid > last_event_id /\ (history = <<>> \/ last_event_id + 1 >= history[1].id)

\* Mutant of Replays: cursor 0 asks for no history.
ReplaysNothingFromZero(eid, last_event_id) == eid > last_event_id /\ last_event_id # 0

\* line 48: whether a retained record is replayed
Replays(eid, last_event_id) == eid > last_event_id

\* lines 47-49: one iteration of the replay loop; q.put blocks while the
\* queue is full.
SubReplay(c) ==
    /\ cpc[c] = "L47"
    /\ clocal[c].idx <= Len(history)
    /\ LET rec == history[clocal[c].idx]
       IN IF Replays(rec.id, clocal[c].last_id)
          THEN /\ ~QueueFull(c)
               /\ mailbox' = [mailbox EXCEPT ![c] = Append(@, rec)]
          ELSE UNCHANGED mailbox
    /\ clocal' = [clocal EXCEPT ![c].idx = @ + 1]
    /\ UNCHANGED <<lock, busVars, ppc, plocal, cpc, stream, ghostVars>>
    /\ UNCHANGED srvVars

\* line 50, the end of the with block, and the return of line 51
SubRegister(c) ==
    /\ cpc[c] = "L47"
    /\ clocal[c].idx > Len(history)
    /\ subscribers' = Append(subscribers, c)
    /\ lock' = NoThread
    /\ cpc' = [cpc EXCEPT ![c] = "L451"]
    /\ clocal' = [clocal EXCEPT
           ![c].last_id = 0,
           ![c].idx = 0,
           ![c].numeric = FALSE,
           ![c].exact = FALSE,
           ![c].base = IF next_id = 1 THEN 0
                       ELSE IF mailbox[c] # <<>> THEN Head(mailbox[c]).id
                       ELSE next_id]
    /\ UNCHANGED <<history, next_id, mailbox, ppc, plocal, stream, ghostVars>>
    /\ UNCHANGED srvVars

\* line 451: sub.get(timeout=15) returns an item
SseGet(c) ==
    /\ cpc[c] = "L451"
    /\ mailbox[c] # <<>>
    /\ clocal' = [clocal EXCEPT ![c].item = Head(mailbox[c])]
    /\ mailbox' = [mailbox EXCEPT ![c] = Tail(@)]
    /\ cpc' = [cpc EXCEPT ![c] = "L453"]
    /\ UNCHANGED <<lock, busVars, ppc, plocal, stream, ghostVars>>
    /\ UNCHANGED srvVars

\* line 452: the frame of a record
Frame(rec) == [id |-> rec.id, type |-> rec.type, data |-> JsonLoads(rec.data)]

WriteOutcomes == {"ok", "broken", "other"}

\* The client's end of the connection: "open"; "closing" once the client has
\* closed it and the server's socket has not been reset yet; "gone" once it
\* has been reset.
\* lines 453-454 and 459-460: wfile.write / flush on a connection that has
\* been reset raises; on any other it may succeed.
WriteCanSucceed(c) == clocal[c].peer # "gone"

\* A write that succeeds on a connection the client has closed is answered
\* by a reset.
AfterWrite(peer) == IF peer = "closing" THEN "gone" ELSE peer

LastSeen(c) == IF stream[c] = <<>> THEN 0 ELSE stream[c][Len(stream[c])].id

\* Mutant of LeaveLoop: a failed write is skipped and the loop goes on.
KeepsLooping(c, outcome) ==
    /\ cpc' = [cpc EXCEPT ![c] = "L451"]
    /\ clocal' = [clocal EXCEPT ![c].item = NoItem]
    /\ UNCHANGED stream

\* Leaving the loop: by break (BrokenPipeError, ConnectionResetError) or by
\* any other exception, which passes through the finally clause.
LeaveLoop(c, outcome) ==
    /\ cpc' = [cpc EXCEPT ![c] = "L465"]
    /\ clocal' = [clocal EXCEPT
           ![c].item = NoItem,
           ![c].exit = IF outcome = "broken" THEN "break" ELSE "exception",
           ![c].resume = NoResume,
           ![c].seen = LastSeen(c)]
    /\ stream' = [stream EXCEPT ![c] = <<>>]

\* lines 452-454 and 462-463: write and flush the frame
SseWrite(c, outcome) ==
    /\ cpc[c] = "L453"
    /\ outcome = "ok" => WriteCanSucceed(c)
    /\ IF outcome = "ok"
       THEN /\ stream' = [stream EXCEPT ![c] = Append(@, Frame(clocal[c].item))]
            /\ cpc' = [cpc EXCEPT ![c] = "L451"]
            /\ clocal' = [clocal EXCEPT ![c].item = NoItem,
                                        ![c].peer = AfterWrite(@)]
       ELSE LeaveLoop(c, outcome)
    /\ UNCHANGED <<lock, busVars, mailbox, ppc, plocal, ghostVars>>
    /\ UNCHANGED srvVars

\* lines 451 and 455-461: the timeout elapses on an empty queue (queue.Empty)
\* and the keepalive comment is written
SseKeepalive(c, outcome) ==
    /\ cpc[c] = "L451"
    /\ mailbox[c] = <<>>
    /\ outcome = "ok" => WriteCanSucceed(c)
    /\ IF outcome = "ok"
       THEN /\ clocal' = [clocal EXCEPT ![c].peer = AfterWrite(@)]
            /\ UNCHANGED <<cpc, stream>>
       ELSE LeaveLoop(c, outcome)
    /\ UNCHANGED <<lock, busVars, mailbox, ppc, plocal, ghostVars>>
    /\ UNCHANGED srvVars

\* Mutant of RunsFinally: unsubscribe follows the loop instead of being in a
\* finally clause, so only a break reaches it.
OnlyOnBreak(exit) == exit = "break"

\* Whether an exit of the loop ("break" or "exception") runs unsubscribe: the
\* finally clause, lines 464-465, runs on every exit.
RunsFinally(exit) == TRUE

\* lines 464-465 and 54: the finally clause calls unsubscribe, which takes
\* the lock
UnsubAcquire(c) ==
    /\ cpc[c] = "L465"
    /\ IF RunsFinally(clocal[c].exit)
       THEN /\ UnsubscribeLockFree
            /\ lock' = c
            /\ cpc' = [cpc EXCEPT ![c] = "L56"]
       ELSE /\ cpc' = [cpc EXCEPT ![c] = "done"]
            /\ UNCHANGED lock
    /\ UNCHANGED <<busVars, mailbox, ppc, plocal, clocal, stream, ghostVars>>
    /\ UNCHANGED srvVars

\* Mutant of SwallowsValueError: the ValueError of list.remove is not caught.
ValueErrorPropagates == FALSE

\* lines 57-58: except ValueError: pass
SwallowsValueError == TRUE

\* lines 55-58, the end of the with block, and the return of _serve_sse,
\* after which nothing but the registry can still refer to the queue
UnsubRemove(c) ==
    /\ cpc[c] = "L56"
    /\ subscribers' = ListRemove(subscribers, c)
    /\ lock' = NoThread
    /\ cpc' = [cpc EXCEPT ![c] =
           IF c \in Range(subscribers) \/ SwallowsValueError THEN "done" ELSE "raised"]
    /\ mailbox' = [mailbox EXCEPT ![c] = <<>>]
    /\ dropped' = [dropped EXCEPT ![c] = {}]
    /\ UNCHANGED <<history, next_id, ppc, plocal, clocal, stream, log, started>>
    /\ UNCHANGED srvVars

\* ------------------------------------------------------------------------
ProducerStep(p) ==
    \/ \E ev \in EventInputs(p) : PushCall(p, ev)
    \/ PushAcquire(p)
    \/ PushStamp(p)
    \/ PushAppend(p)
    \/ PushSnapshot(p)
    \/ PushPut(p)
    \/ PushReturn(p)

HandlerStep(c) ==
    \/ \E req \in Requests : Connect(c, req)
    \/ SubAcquire(c)
    \/ SubReplay(c)
    \/ SubRegister(c)
    \/ SseGet(c)
    \/ \E o \in WriteOutcomes : SseWrite(c, o)
    \/ \E o \in WriteOutcomes : SseKeepalive(c, o)
    \/ UnsubAcquire(c)
    \/ UnsubRemove(c)

Next ==
    \/ \E p \in Producers : ProducerStep(p)
    \/ \E c \in Conns : HandlerStep(c)

Spec == Init /\ [][Next]_vars

\* ------------------------------------------------------------------------
\* _DashboardHandler.do_GET (lines 408-414): any GET request of a client.
\* The page and the not-found response end the handler at once; the stream
\* goes on in _serve_sse.
DoGet(c, req) ==
    IF Route(req.path) = "sse"
    THEN Connect(c, req)
    ELSE /\ cpc[c] \in {"closed", "done"}
         /\ cpc' = [cpc EXCEPT ![c] = "done"]
         /\ clocal' = [clocal EXCEPT ![c] =
                [InitCLocal EXCEPT !.exit = Route(req.path), !.seen = clocal[c].seen]]
         /\ UNCHANGED <<lock, busVars, mailbox, ppc, plocal, stream, ghostVars>>
         /\ UNCHANGED srvVars

GetHandlerStep(c) ==
    \/ \E req \in Requests \cup OtherRequests : DoGet(c, req)
    \/ SubAcquire(c)
    \/ SubReplay(c)
    \/ SubRegister(c)
    \/ SseGet(c)
    \/ \E o \in WriteOutcomes : SseWrite(c, o)
    \/ \E o \in WriteOutcomes : SseKeepalive(c, o)
    \/ UnsubAcquire(c)
    \/ UnsubRemove(c)

GetNext ==
    \/ \E p \in Producers : ProducerStep(p)
    \/ \E c \in Conns : GetHandlerStep(c)

\* Two producers and one client connection, which sends any of the requests.
GetInit == Init /\ cpc["c2"] = "absent"

GetSpec == GetInit /\ [][GetNext]_vars

\* ------------------------------------------------------------------------
\* EventBus.unsubscribe (lines 53-58) called on any channel, registered or
\* not, from bus states drawn from a bounded set.

\* The stored records the states are drawn from.
SomeRecord(i) == [id |-> i, type |-> "code_input", data |-> JsonDumps("plain")]

\* Lists without repetition over a set of channels: the registry never holds
\* a queue twice, subscribe appends a fresh one (lines 44, 50).
Registries(S) ==
    {<<>>} \cup {<<c>> : c \in S}
           \cup {pair \in S \X S : pair[1] # pair[2]}

\* A bus that has published n events (n <= HISTORY_SIZE) to the registered
\* channels; each channel is one never registered ("closed"), one already
\* removed ("done"), one whose loop is running ("L451"), or one whose loop
\* has just been left ("L465").
UnsubInit ==
    /\ lock = NoThread
    /\ \E n \in 0..HISTORY_SIZE :
          /\ history = [i \in 1..n |-> SomeRecord(i)]
          /\ log = [i \in 1..n |-> [id |-> i, type |-> "code_input", data |-> "plain"]]
          /\ next_id = n + 1
          /\ started = n
          /\ mailbox \in [Conns -> IF n = 0 THEN {<<>>} ELSE {<<>>, <<SomeRecord(n)>>}]
    /\ cpc \in [Conns -> {"closed", "done", "L451", "L465"}]
    /\ subscribers \in Registries(Conns)
    /\ \A c \in Conns :
          /\ (c \in Range(subscribers)) <=> (cpc[c] \in {"L451", "L465"})
          /\ (c \notin Range(subscribers)) => mailbox[c] = <<>>
    /\ ppc = [p \in Producers |-> "idle"]
    /\ plocal = [p \in Producers |-> InitPLocal]
    /\ clocal = [c \in Conns |->
                    [InitCLocal EXCEPT !.exit = IF cpc[c] = "L465" THEN "break" ELSE "none"]]
    /\ stream = [c \in Conns |-> <<>>]
    /\ dropped = [c \in Conns |-> {}]
    /\ ServerInit({})

\* unsubscribe(q) is called for a channel that is not registered.
UnsubscribeAbsent(c) ==
    /\ cpc[c] \in {"closed", "done"}
    /\ clocal[c].exit # "again"
    /\ cpc' = [cpc EXCEPT ![c] = "L465"]
    /\ clocal' = [clocal EXCEPT ![c].exit = "again"]
    /\ UNCHANGED <<lock, busVars, mailbox, ppc, plocal, stream, ghostVars>>
    /\ UNCHANGED srvVars

UnsubNext ==
    \E c \in Conns : UnsubscribeAbsent(c) \/ UnsubAcquire(c) \/ UnsubRemove(c)

UnsubSpec == UnsubInit /\ [][UnsubNext]_vars

\* ------------------------------------------------------------------------
\* start (lines 476-499), called from any thread; no lock guards it.

\* a call of start(port_start, port_end)
StartCall(t, lo, hi) ==
    /\ spc[t] = "idle"
    /\ spc' = [spc EXCEPT ![t] = "L483"]
    /\ slocal' = [slocal EXCEPT ![t] =
           [InitSLocal EXCEPT !.port_start = lo, !.port_end = hi]]
    /\ overlap' = (overlap \/ \E o \in Starters \ {t} : spc[o] # "idle")
    /\ UNCHANGED <<server, port, listeners, loops, inuse>>
    /\ UNCHANGED coreVars

\* Mutant of AlreadyStarted: start does not look at _server.
NeverStarted == FALSE

\* line 483: if _server is not None
AlreadyStarted == server # NoServer

\* Mutant of FirstPort: the scan starts at the top of the range.
FirstPortHigh(lo, hi) == hi

\* line 486: range(port_start, port_end + 1) starts at port_start
FirstPort(lo, hi) == lo

\* line 483, and line 486 entering the loop
StartCheck(t) ==
    /\ spc[t] = "L483"
    /\ IF AlreadyStarted
       THEN /\ spc' = [spc EXCEPT ![t] = "L484"]
            /\ UNCHANGED slocal
       ELSE /\ spc' = [spc EXCEPT ![t] = "L486"]
            /\ slocal' = [slocal EXCEPT
                   ![t].port = FirstPort(slocal[t].port_start, slocal[t].port_end),
                   ![t].fresh = TRUE]
    /\ UNCHANGED <<server, port, listeners, loops, inuse, overlap>>
    /\ UNCHANGED coreVars

\* line 484: return _port
StartReturnPort(t) ==
    /\ spc[t] = "L484"
    /\ spc' = [spc EXCEPT ![t] = "idle"]
    /\ slocal' = [slocal EXCEPT ![t].ret = port, ![t].done = TRUE]
    /\ UNCHANGED <<server, port, listeners, loops, inuse, overlap>>
    /\ UNCHANGED coreVars

\* line 488: the bind of _ThreadedHTTPServer raises OSError when the port is
\* occupied, by another process or by a listener of this one.
BindFails(q) == q \in inuse \cup listeners

\* lines 486-488 and 496-497: one iteration of the scan; OSError moves on to
\* the next port.
StartBind(t) ==
    /\ spc[t] = "L486"
    /\ slocal[t].port <= slocal[t].port_end
    /\ IF BindFails(slocal[t].port)
       THEN /\ slocal' = [slocal EXCEPT ![t].port = @ + 1]
            /\ UNCHANGED <<spc, listeners>>
       ELSE /\ listeners' = listeners \cup {slocal[t].port}
            /\ spc' = [spc EXCEPT ![t] = "L489"]
            /\ UNCHANGED slocal
    /\ UNCHANGED <<server, port, loops, inuse, overlap>>
    /\ UNCHANGED coreVars

\* line 499: the range is exhausted, return None
StartFail(t) ==
    /\ spc[t] = "L486"
    /\ slocal[t].port > slocal[t].port_end
    /\ spc' = [spc EXCEPT ![t] = "idle"]
    /\ slocal' = [slocal EXCEPT ![t].ret = NoneRet, ![t].done = TRUE]
    /\ UNCHANGED <<server, port, listeners, loops, inuse, overlap>>
    /\ UNCHANGED coreVars

\* line 489: _server = srv
StartSetServer(t) ==
    /\ spc[t] = "L489"
    /\ server' = slocal[t].port
    /\ spc' = [spc EXCEPT ![t] = "L490"]
    /\ UNCHANGED <<port, listeners, loops, inuse, slocal, overlap>>
    /\ UNCHANGED coreVars

\* line 490: _port = port
StartSetPort(t) ==
    /\ spc[t] = "L490"
    /\ port' = slocal[t].port
    /\ spc' = [spc EXCEPT ![t] = "L491"]
    /\ UNCHANGED <<server, listeners, loops, inuse, slocal, overlap>>
    /\ UNCHANGED coreVars

\* lines 491-495: start the accept loop thread (and the browser timer),
\* return port
StartServe(t) ==
    /\ spc[t] = "L491"
    /\ loops' = loops \cup {slocal[t].port}
    /\ spc' = [spc EXCEPT ![t] = "idle"]
    /\ slocal' = [slocal EXCEPT ![t].ret = slocal[t].port, ![t].done = TRUE]
    /\ UNCHANGED <<server, port, listeners, inuse, overlap>>
    /\ UNCHANGED coreVars

\* The port ranges start is called with, the empty ones (start > end)
\* included.
StarterStep(t) ==
    \/ \E lo \in Ports : \E hi \in Ports : StartCall(t, lo, hi)
    \/ StartCheck(t)
    \/ StartReturnPort(t)
    \/ StartBind(t)
    \/ StartFail(t)
    \/ StartSetServer(t)
    \/ StartSetPort(t)
    \/ StartServe(t)

StartNext == \E t \in Starters : StarterStep(t)

\* Any set of ports may be occupied by other processes when the run begins.
StartInit == BusInit /\ \E occupied \in SUBSET Ports : ServerInit(occupied)

StartSpec == StartInit /\ [][StartNext]_vars

\* ========================================================================
\* Definitions the properties are stated with

Registered(c) == \E i \in 1..Len(subscribers) : subscribers[i] = c

\* The delivery loop is running: waiting on the queue, or writing a frame.
InLoop(c) == cpc[c] \in {"L451", "L453"}

\* The records the loop has taken or is still to take, in FIFO order.
Queued(c) == (IF cpc[c] = "L453" THEN <<clocal[c].item>> ELSE <<>>) \o mailbox[c]

\* The frames written to the client followed by those of the queued records.
Delivered(c) == stream[c] \o SeqMap(Frame, Queued(c))

DeliveredIds(c) == Ids(Delivered(c))

\* A publish has its id but has not yet tried c's mailbox.
InFlight(c) ==
    \E p \in Producers :
        \/ ppc[p] \in {"L65", "L69"}
        \/ ppc[p] = "L70" /\ \E i \in 1..Len(plocal[p].qs) : plocal[p].qs[i] = c

\* The last id whose fan-out has reached c.
Top(c) == IF InFlight(c) THEN next_id - 2 ELSE next_id - 1

\* The first id the subscription of c is owed.
First(c) == IF clocal[c].base = 0 THEN 1 ELSE clocal[c].base

NoFrame == [id |-> 0, type |-> "none", data |-> "none"]

\* The frame of the i-th event published, from what the producer passed in.
PublishedFrame(i) ==
    IF i \in 1..Len(log)
    THEN [id |-> i, type |-> log[i].type, data |-> WireData(log[i].data)]
    ELSE NoFrame

FramesFromTo(a, b) == [i \in 1..(b - a + 1) |-> PublishedFrame(a + i - 1)]

NoRepeat(s) == \A i \in 1..Len(s) : \A j \in 1..Len(s) : i # j => s[i] # s[j]

\* ------------------------------------------------------------------------
\* C1: a subscriber that registered before the first publish, is still
\* subscribed and has had no publish find its mailbox full holds, written or
\* queued, exactly the frames of the publishes 1..n that have reached it, each
\* once, in publish order, with ids 1, 2, ..., n.
C1_OrderedDelivery ==
    \A c \in Conns :
        (InLoop(c) /\ Registered(c) /\ clocal[c].base = 0 /\ dropped[c] = {})
            => Delivered(c) = FramesFromTo(1, Top(c))

\* An early subscriber has been written three frames and holds more.
C1_Witness ==
    \E c \in Conns :
        /\ InLoop(c) /\ Registered(c) /\ clocal[c].base = 0 /\ dropped[c] = {}
        /\ Len(stream[c]) >= 3
        /\ Len(Delivered(c)) >= 4

\* ------------------------------------------------------------------------
\* The replay of subscribe is complete: the loop of lines 47-49 is exhausted
\* and the queue is not yet registered.
ReplayDone(c) == cpc[c] = "L47" /\ clocal[c].idx > Len(history)

\* k is inside the retained window: not ahead of the bus, and every id above
\* it is still retained.
InWindow(k) == k < next_id /\ Retained(k)

RetainedAbove(k) ==
    LET Above(r) == r.id > k IN SelectSeq(history, Above)

ReplayExact(c) ==
    (ReplayDone(c) /\ InWindow(clocal[c].last_id))
        => mailbox[c] = RetainedAbove(clocal[c].last_id)

\* C2 as stated: subscribe(k), k inside the retained window, leaves in the new
\* mailbox exactly the retained records with id > k, in ascending order and as
\* stored; and the subscriber then receives every later publish, so that what
\* it holds is the gap-free, duplicate-free run from its first id to the last
\* publish that reached it.
C2_AsStated ==
    \A c \in Conns :
        /\ ReplayExact(c)
        /\ (InLoop(c) /\ Registered(c))
               => Delivered(c) = FramesFromTo(First(c), Top(c))

\* C2 as amended: the same, for a subscriber no publish found full.
C2_ReplayThenLive ==
    \A c \in Conns :
        /\ ReplayExact(c)
        /\ (InLoop(c) /\ Registered(c) /\ dropped[c] = {})
               => Delivered(c) = FramesFromTo(First(c), Top(c))

\* subscribe(k), k >= 1, has replayed part of a full history.
C2_Witness ==
    \E c \in Conns :
        /\ ReplayDone(c)
        /\ InWindow(clocal[c].last_id)
        /\ clocal[c].last_id >= 1
        /\ Len(history) = HISTORY_SIZE
        /\ Len(mailbox[c]) >= 1
        /\ Len(mailbox[c]) < Len(history)

\* ------------------------------------------------------------------------
\* A thread is inside a critical section of the bus.
ProducerInBus(p) == ppc[p] \in {"L63", "L65", "L69", "L70"}
HandlerInBus(c) == cpc[c] \in {"L47", "L56"}

\* Publishes and subscribes exclude one another: at most one thread is inside
\* the bus, and it holds the lock.
MutualExclusion ==
    /\ \A p \in Producers : ProducerInBus(p) => lock = p
    /\ \A c \in Conns : HandlerInBus(c) => lock = c

\* C3 as stated: a publish fully precedes or fully follows a subscribe; no
\* record is in a mailbox twice (replayed and delivered live); and every
\* record published since the subscription's first id is in the mailbox or
\* has been taken from it.
C3_AsStated ==
    /\ MutualExclusion
    /\ \A c \in Conns :
          /\ NoRepeat(Ids(stream[c]) \o Ids(Queued(c)))
          /\ (InLoop(c) /\ Registered(c))
                 => \A i \in First(c)..Top(c) :
                        \E j \in 1..Len(DeliveredIds(c)) : DeliveredIds(c)[j] = i

\* C3 as amended: a record is missing only if its publish found the mailbox
\* full.
C3_AtomicSubscribe ==
    /\ MutualExclusion
    /\ \A c \in Conns :
          /\ NoRepeat(Ids(stream[c]) \o Ids(Queued(c)))
          /\ (InLoop(c) /\ Registered(c))
                 => \A i \in First(c)..Top(c) :
                        \/ \E j \in 1..Len(DeliveredIds(c)) : DeliveredIds(c)[j] = i
                        \/ i \in dropped[c]

\* A subscribe is replaying while a push waits at the lock.
C3_Witness ==
    \E c \in Conns : \E p \in Producers :
        /\ cpc[c] = "L47"
        /\ mailbox[c] # <<>>
        /\ ppc[p] = "L62"

\* ------------------------------------------------------------------------
\* C4: in every state the ids written to a client followed by those its
\* mailbox holds, in FIFO order, are strictly increasing (so any two
\* subscribers see the ids they share in the same order).
C4_IncreasingIds ==
    \A c \in Conns : StrictlyIncreasing(Ids(stream[c]) \o Ids(Queued(c)))

\* A mailbox holds ids below and above one that was dropped for it.
C4_Witness ==
    \E c \in Conns : \E d \in dropped[c] :
        LET ids == Ids(stream[c]) \o Ids(Queued(c))
        IN /\ \E i \in 1..Len(ids) : ids[i] < d
           /\ \E j \in 1..Len(mailbox[c]) : mailbox[c][j].id > d

\* ------------------------------------------------------------------------
\* The record the bus stores for the i-th event published.
StoredRecord(i) == [id |-> i, type |-> log[i].type, data |-> JsonDumps(log[i].data)]

\* C5: the history never holds more than HISTORY_SIZE records; it is the
\* most recent min(HISTORY_SIZE, total) records in ascending id order; once
\* more than HISTORY_SIZE were published it holds exactly HISTORY_SIZE and the
\* oldest retained id is total - HISTORY_SIZE + 1.
C5_BoundedHistory ==
    LET total == Len(log)
        kept == IF total > HISTORY_SIZE THEN HISTORY_SIZE ELSE total
    IN /\ Len(history) <= HISTORY_SIZE
       /\ Len(history) = kept
       /\ \A j \in 1..Len(history) :
              /\ total - kept + j \in 1..total
              /\ history[j] = StoredRecord(total - kept + j)
       /\ total > HISTORY_SIZE => history[1].id = total - HISTORY_SIZE + 1

\* One more than HISTORY_SIZE events were published and the first is gone.
C5_Witness ==
    /\ Len(log) = HISTORY_SIZE + 1
    /\ Len(history) = HISTORY_SIZE
    /\ history[1].id = 2

\* ------------------------------------------------------------------------
\* C6: the k-th record appended has id k; the bus's next id is one more than
\* the ids assigned so far; no two producers hold the same id.
C6_GapFreeIds ==
    /\ \A k \in 1..Len(log) : log[k].id = k
    /\ next_id = Len(log) + 1 + Cardinality({p \in Producers : ppc[p] = "L65"})
    /\ \A p \in Producers :
           ppc[p] \in {"L65", "L69", "L70"} => plocal[p].eid = next_id - 1
    /\ \A p \in Producers : \A q \in Producers :
           (p # q /\ plocal[p].eid # 0) => plocal[p].eid # plocal[q].eid

\* After trimming has begun, one producer holds a fresh id while the other
\* waits at the lock.
C6_Witness ==
    \E p \in Producers : \E q \in Producers :
        /\ ppc[p] = "L65"
        /\ ppc[q] = "L62"
        /\ Len(log) > HISTORY_SIZE
        /\ plocal[p].eid = Len(log) + 1

\* ------------------------------------------------------------------------
\* The step of push that tries the mailbox at the head of its list.
PutStep(p) == ppc[p] = "L70" /\ plocal[p].qs # <<>> /\ plocal'[p] # plocal[p]

\* What that step does: the record stays in the history; the mailbox tried
\* takes it when it has room and is left as it is when full; no other mailbox
\* changes; and push goes on with the rest of its list, no error raised.
PutStepIsLocal(p) ==
    LET q == Head(plocal[p].qs)
        rec == PushRecord(p)
    IN /\ \E j \in 1..Len(history) : history[j] = rec
       /\ history' = history
       /\ mailbox'[q] = IF Len(mailbox[q]) >= MAILBOX_SIZE
                        THEN mailbox[q]
                        ELSE Append(mailbox[q], rec)
       /\ \A c \in Conns \ {q} : mailbox'[c] = mailbox[c]
       /\ ppc'[p] = "L70"
       /\ plocal'[p].qs = Tail(plocal[p].qs)

\* A record dropped for one subscriber has reached, or is about to reach,
\* every other subscriber that was owed it, unless that one was full too.
OthersStillServed ==
    \A c \in Conns : \A o \in Conns \ {c} : \A d \in dropped[c] :
        (InLoop(o) /\ Registered(o) /\ First(o) <= d /\ d <= Top(o))
            => \/ \E j \in 1..Len(DeliveredIds(o)) : DeliveredIds(o)[j] = d
               \/ d \in dropped[o]

\* C7: a publish that finds a mailbox full drops the record for that
\* subscriber only: the record is in the history, every other mailbox with
\* room gets it, and push goes on without an error.
C7_DropIsLocal ==
    /\ []OthersStillServed
    /\ [][\A p \in Producers : PutStep(p) => PutStepIsLocal(p)]_vars

\* An id was dropped for one subscriber and delivered to the other, and the
\* publish has returned.
C7_Witness ==
    \E c \in Conns : \E o \in Conns \ {c} : \E d \in dropped[c] :
        /\ lock = NoThread
        /\ \A p \in Producers : ppc[p] \in {"idle", "absent"}
        /\ d \notin dropped[o]
        /\ \E j \in 1..Len(DeliveredIds(o)) : DeliveredIds(o)[j] = d

\* ------------------------------------------------------------------------
\* Progress.  A thread that is running takes its next step: a producer inside
\* push, a handler inside subscribe or unsubscribe.  A producer waiting at the
\* lock gets it if the lock is free again and again.  Nothing is assumed of
\* the delivery loops (a client may stall its handler's write for ever), of
\* producers calling push, or of clients connecting.
LiveInit == Init /\ cpc["c2"] = "absent"

Fairness ==
    /\ \A p \in Producers :
          /\ SF_vars(PushAcquire(p))
          /\ WF_vars(PushStamp(p) \/ PushAppend(p) \/ PushSnapshot(p)
                       \/ PushPut(p) \/ PushReturn(p))
    /\ \A c \in Conns : WF_vars(SubReplay(c) \/ SubRegister(c) \/ UnsubRemove(c))

LiveSpec == LiveInit /\ [][Next]_vars /\ Fairness

\* ------------------------------------------------------------------------
\* Clients that disconnect.  The handler of the connection is anywhere in
\* _serve_sse (lines 447-465); the client closes its end, or the connection
\* is reset at once.
InServe(c) == cpc[c] \in {"L45", "L47", "L451", "L453", "L465", "L56"}

Disconnected(c) == InServe(c) /\ clocal[c].peer # "open"

Disconnect(c, how) ==
    /\ InServe(c)
    /\ clocal[c].peer = "open"
    /\ clocal' = [clocal EXCEPT ![c].peer = how]
    /\ UNCHANGED <<lock, busVars, mailbox, ppc, plocal, cpc, stream, ghostVars>>
    /\ UNCHANGED srvVars

DiscNext ==
    \/ \E p \in Producers : ProducerStep(p)
    \/ \E c \in Conns : HandlerStep(c)
    \/ \E c \in Conns : \E how \in {"closing", "gone"} : Disconnect(c, how)

\* One producer and one client connection.
DiscInit == BusInitOf({"p1", "c1"}) /\ ServerInit({})

\* Scheduling: every thread that can take a step is run (daemon threads of
\* ThreadingMixIn, line 397); a thread waiting for the lock gets it, since
\* the lock is released again and again; sub.get returns an item or times
\* out after 15 s (line 451), and the write that follows is attempted.
DiscFairness ==
    /\ WF_vars(PushStamp("p1") \/ PushAppend("p1") \/ PushSnapshot("p1")
                  \/ PushPut("p1") \/ PushReturn("p1"))
    /\ SF_vars(SubAcquire("c1") \/ UnsubAcquire("c1"))
    /\ WF_vars(\/ SubReplay("c1") \/ SubRegister("c1") \/ UnsubRemove("c1")
               \/ SseGet("c1")
               \/ \E o \in WriteOutcomes : SseWrite("c1", o)
               \/ Disconnected("c1") /\ \E o \in WriteOutcomes : SseKeepalive("c1", o))

DiscSpec == DiscInit /\ [][DiscNext]_vars /\ DiscFairness

\* C8: every push that has been called returns, and the lock, once held, is
\* released, whatever the delivery loops do: no step of push waits for a
\* mailbox to drain or for a client.
C8_PublishReturns ==
    /\ \A p \in Producers : (ppc[p] = "L62") ~> (ppc[p] = "idle")
    /\ (lock # NoThread) ~> (lock = NoThread)

\* A push has returned after finding the mailbox full, and the mailbox is
\* still full: its handler has not taken anything since.
C8_Witness ==
    \E c \in Conns :
        /\ dropped[c] # {}
        /\ QueueFull(c)
        /\ cpc[c] = "L451"
        /\ lock = NoThread
        /\ \A p \in Producers : ppc[p] \in {"idle", "absent"}

\* ------------------------------------------------------------------------
\* C9: a handler that has returned is not in the registry.
C9_UnsubscribedOnReturn ==
    \A c \in Conns : cpc[c] = "done" => ~Registered(c)

\* A handler has returned after an exception the loop does not catch, its
\* client having been written frames before.
C9_Witness ==
    \E c \in Conns :
        /\ cpc[c] = "done"
        /\ clocal[c].exit = "exception"
        /\ clocal[c].seen >= 1

\* ------------------------------------------------------------------------
\* C10 as stated: a connection opened with the last id k its client received,
\* while every id above k was still retained, holds exactly the events with
\* id > k that have reached it, each once and in ascending order.
C10_AsStated ==
    \A c \in Conns :
        (InLoop(c) /\ Registered(c) /\ clocal[c].resume # NoResume)
            => Delivered(c) = FramesFromTo(clocal[c].resume + 1, Top(c))

\* C10 as amended: the same, for a connection no publish found full.
C10_ResumeLosesNothing ==
    \A c \in Conns :
        (InLoop(c) /\ Registered(c) /\ clocal[c].resume # NoResume /\ dropped[c] = {})
            => Delivered(c) = FramesFromTo(clocal[c].resume + 1, Top(c))

\* A reconnected client has been written events from k + 1 on, more of them
\* than a replay can hold.
C10_Witness ==
    \E c \in Conns :
        /\ InLoop(c) /\ Registered(c)
        /\ clocal[c].resume >= 1
        /\ dropped[c] = {}
        /\ Len(stream[c]) > HISTORY_SIZE
        /\ stream[c][1].id = clocal[c].resume + 1

\* ------------------------------------------------------------------------
\* The cursor of subscribe lies before the oldest retained record.
BeforeWindow(c) == history # <<>> /\ clocal[c].last_id < history[1].id

\* The most recent records published, as many as the history may hold, as
\* the bus stored them.
MostRecentStored ==
    LET total == Len(log)
        kept == IF total > HISTORY_SIZE THEN HISTORY_SIZE ELSE total
    IN [j \in 1..kept |-> StoredRecord(total - kept + j)]

\* C11: subscribe with a cursor older than the oldest retained record (0
\* after trimming included) completes its replay with the new mailbox holding
\* exactly the retained history, oldest retained record first, and no
\* trimmed record.
C11_ReplayBeyondWindow ==
    \A c \in Conns :
        (ReplayDone(c) /\ BeforeWindow(c))
            => /\ mailbox[c] = history
               /\ mailbox[c] = MostRecentStored
               /\ \A j \in 1..Len(mailbox[c]) : mailbox[c][j].id > Len(log) - HISTORY_SIZE

\* subscribe(0) has replayed after the first records were trimmed: the
\* mailbox starts at an id above 1.
C11_Witness ==
    \E c \in Conns :
        /\ ReplayDone(c)
        /\ clocal[c].last_id = 0
        /\ Len(log) > HISTORY_SIZE
        /\ Len(mailbox[c]) = HISTORY_SIZE
        /\ mailbox[c][1].id = Len(log) - HISTORY_SIZE + 1
        /\ mailbox[c][1].id > 1

\* ------------------------------------------------------------------------
\* The thread's last call of start has returned a port.
Succeeded(t) == slocal[t].done /\ slocal[t].ret # NoneRet

\* The server is RUNNING: a call of start has recorded its listener and
\* started the accept loop, which is when it returns the port.
Running == server # NoServer /\ server \in loops

\* With the calls of start made one after another: at most one listener and
\* one accept loop exist, and every call that returned a port returned the
\* serving port, the one of the only listener.
OneServer ==
    ~overlap =>
        /\ Cardinality(listeners) <= 1
        /\ loops \subseteq listeners
        /\ \A t \in Starters :
               Succeeded(t) => /\ slocal[t].ret = port
                               /\ server = port
                               /\ listeners = {port}
                               /\ loops = {port}

\* Once RUNNING, no step of any start call changes the server state.
RunningIsStable ==
    (~overlap' /\ Running)
        => /\ Running'
           /\ server' = server /\ port' = port
           /\ listeners' = listeners /\ loops' = loops

\* C12: start is idempotent.  Once a call has returned a port, every later
\* call, whatever its port range, returns that port, and the listener, the
\* accept loop, _server and _port stay as they are.
C12_StartIdempotent == []OneServer /\ [][RunningIsStable]_vars

\* A second call, with a range that does not hold the serving port, has
\* returned the port of the first.
C12_Witness ==
    /\ ~overlap
    /\ Succeeded("s1") /\ slocal["s1"].fresh
    /\ Succeeded("s2") /\ ~slocal["s2"].fresh
    /\ slocal["s2"].port_start > slocal["s1"].ret
    /\ slocal["s2"].port_start <= slocal["s2"].port_end
    /\ slocal["s2"].port_start \notin inuse

\* ------------------------------------------------------------------------
\* The ports of the inclusive range lo..hi that no other process occupies.
FreePorts(lo, hi) == {q \in lo..hi : q \notin inuse}

Lowest(S) == CHOOSE q \in S : \A r \in S : q <= r

\* What a call on an unstarted server has returned: the lowest free port of
\* its range, which is then the listener and the serving port, or None.
ReturnsLowestFree ==
    ~overlap =>
        \A t \in Starters :
            (slocal[t].done /\ slocal[t].fresh)
                => LET free == FreePorts(slocal[t].port_start, slocal[t].port_end)
                   IN IF free = {}
                      THEN slocal[t].ret = NoneRet
                      ELSE /\ slocal[t].ret = Lowest(free)
                           /\ slocal[t].ret \in listeners

\* A call that returns None leaves the server unstarted, with no listener.
FailureLeavesUnstarted ==
    \A t \in Starters :
        (~overlap' /\ spc[t] # "idle" /\ spc'[t] = "idle" /\ slocal'[t].ret = NoneRet)
            => /\ server' = NoServer /\ port' = 0
               /\ listeners' = {} /\ loops' = {}

\* C13: on an unstarted server start binds and returns the lowest port of
\* its range that is not in use; with every port of the range in use it
\* returns None and leaves the server unstarted, so that a later call can
\* still succeed.
C13_LowestFreePort == []ReturnsLowestFree /\ [][FailureLeavesUnstarted]_vars

\* A call found every port of its range occupied and returned None; a later
\* call, skipping an occupied port, has bound the next one.
C13_Witness ==
    /\ ~overlap
    /\ slocal["s1"].done /\ slocal["s1"].fresh /\ slocal["s1"].ret = NoneRet
    /\ slocal["s1"].port_start <= slocal["s1"].port_end
    /\ Succeeded("s2") /\ slocal["s2"].fresh
    /\ slocal["s2"].ret > slocal["s2"].port_start
    /\ server = slocal["s2"].ret

\* ------------------------------------------------------------------------
\* C14: no call of push ends by an exception reaching its caller, whatever
\* the payload.  (push_event, lines 502-504, passes its arguments to push
\* and catches nothing.)
C14_PushNeverRaises == \A p \in Producers : ppc[p] # "raised"

\* ------------------------------------------------------------------------
\* The registry without channel c, the others in their order.
Without(s, c) == LET Other(x) == x # c IN SelectSeq(s, Other)

\* The step in which unsubscribe(c) removes and returns.
UnsubscribeReturns(c) == cpc[c] = "L56" /\ cpc'[c] # "L56"

\* What that step does: for a channel not in the registry, nothing; for a
\* registered one, it takes exactly that channel out.  The history, the
\* next id and every other channel's mailbox stay as they are.
UnsubscribeEffect(c) ==
    /\ history' = history /\ next_id' = next_id
    /\ \A o \in Conns \ {c} : mailbox'[o] = mailbox[o]
    /\ IF Registered(c)
       THEN /\ subscribers' = Without(subscribers, c)
            /\ Len(subscribers') = Len(subscribers) - 1
       ELSE /\ subscribers' = subscribers
            /\ mailbox'[c] = mailbox[c]
    /\ cpc'[c] = "done"

\* C15: unsubscribe raises for no channel; on a channel that is not in the
\* registry (never registered, or removed before) it changes nothing; on a
\* registered channel it removes that channel and no other.
C15_UnsubscribeIdempotent ==
    /\ [](\A c \in Conns : cpc[c] # "raised")
    /\ [][\A c \in Conns : UnsubscribeReturns(c) => UnsubscribeEffect(c)]_vars

\* unsubscribe has returned for a channel that was already removed, the
\* other channel being registered with a record in its mailbox.
C15_Witness ==
    \E c \in Conns : \E o \in Conns \ {c} :
        /\ cpc[c] = "done" /\ clocal[c].exit = "again"
        /\ Registered(o) /\ mailbox[o] # <<>>
        /\ lock = NoThread

\* ------------------------------------------------------------------------
\* subscribe has been called for the connection and has not returned yet.
Subscribing(c) == cpc[c] \in {"L45", "L47"}

\* C16: a last-seen-id that is absent or not numeric is never an error: no
\* stream connect ends before it subscribes, and a connect that supplied no
\* numeric cursor subscribes with last_seen_id = 0.
C16_CursorNeverAnError ==
    \A c \in Conns :
        /\ clocal[c].exit # "early"
        /\ (Subscribing(c) /\ ~clocal[c].numeric) => clocal[c].last_id = 0

C18_TwoEndpoints ==
    \A c \in Conns : Subscribing(c) => clocal[c].exact

\* ------------------------------------------------------------------------
\* C19: after a client disconnects, its handler leaves the delivery loop and
\* its channel is removed from the registry: no connection stays
\* disconnected and registered forever.
C19_DisconnectedIsRemoved ==
    \A c \in Conns :
        Disconnected(c) ~> (cpc[c] = "done" /\ c \notin Range(subscribers))

\* A connection whose client disconnected while its channel was registered
\* has been written to once more, has left the loop on the failed write and
\* has been removed, after events were published.
C19_Witness ==
    \E c \in Conns :
        /\ cpc[c] = "done" /\ clocal[c].peer = "gone"
        /\ clocal[c].exit = "break"
        /\ c \notin Range(subscribers)
        /\ next_id > 1

\* ------------------------------------------------------------------------
\* The steps a failed write causes in the handler of connection c: leaving
\* the loop (lines 460-463), and the unsubscribe of the finally clause
\* (lines 464-465, 53-58).
FailureStep(c) ==
    \/ cpc[c] \in {"L451", "L453"} /\ cpc'[c] = "L465"
    \/ cpc[c] \in {"L465", "L56"} /\ cpc'[c] # cpc[c]

\* What such a step leaves alone.
OnlyOwnChannel(c) ==
    /\ history' = history
    /\ next_id' = next_id
    /\ ppc' = ppc
    /\ plocal' = plocal
    /\ log' = log
    /\ \A d \in Conns \ {c} :
          /\ mailbox'[d] = mailbox[d]
          /\ cpc'[d] = cpc[d]
          /\ clocal'[d] = clocal[d]
          /\ stream'[d] = stream[d]
          /\ dropped'[d] = dropped[d]
    /\ subscribers' = IF cpc[c] = "L56" THEN Without(subscribers, c) ELSE subscribers
    /\ lock' \in {lock, c, NoThread}
    /\ cpc'[c] = "done" => lock' # c

\* C20: a write failure on a connection ends only that connection's loop: the
\* steps it causes remove that connection's channel from the registry and
\* change nothing else of the bus: not the history, the next id, any other
\* subscriber's registration or mailbox, or any publish in progress.
C20_WriteFailureIsLocal ==
    [][\A c \in Conns : FailureStep(c) => OnlyOwnChannel(c)]_vars

\* A connection has ended on a failed write and is out of the registry while
\* the other one is registered with events waiting and a publish is in
\* progress.
C20_Witness ==
    \E c \in Conns : \E d \in Conns \ {c} :
        /\ cpc[c] = "done" /\ clocal[c].exit \in {"break", "exception"}
        /\ ~Registered(c)
        /\ Registered(d) /\ mailbox[d] # <<>>
        /\ \E p \in Producers : ppc[p] # "idle"

\* ------------------------------------------------------------------------
\* A step that takes c out of the registry.
Removes(c) == Registered(c) /\ ~Registered(c)'

\* Only the unsubscribe of c's own handler (lines 55-56) does so.
OnlyUnsubscribeRemoves ==
    \A c \in Conns : Removes(c) => cpc[c] = "L56" /\ cpc'[c] # "L56"

\* A registered subscriber misses an id its subscription is owed only if that
\* publish found its mailbox full.
MissesOnlyWhenFull ==
    \A c \in Conns :
        (InLoop(c) /\ Registered(c))
            => \A d \in First(c)..Top(c) :
                  \/ \E j \in 1..Len(DeliveredIds(c)) : DeliveredIds(c)[j] = d
                  \/ d \in dropped[c]

\* Once unsubscribe has returned, no step puts anything into the channel.
NothingAfterUnsubscribe ==
    \A c \in Conns :
        (cpc[c] = "done" /\ cpc'[c] = "done") => mailbox'[c] = mailbox[c]

\* C21: a channel stays registered from subscribe until its own unsubscribe:
\* nothing else removes it, a drop on overflow does not, and a registered
\* subscriber gets every later publish that finds room in its mailbox; after
\* unsubscribe has returned no publish enqueues into the channel.
C21_RegisteredUntilUnsubscribe ==
    /\ []MissesOnlyWhenFull
    /\ [][OnlyUnsubscribeRemoves /\ NothingAfterUnsubscribe]_vars

\* A subscriber lost a record to a full mailbox, is still registered, and
\* holds a record published after the one it lost.
C21_Witness ==
    \E c \in Conns :
        /\ InLoop(c) /\ Registered(c)
        /\ \E d \in dropped[c] :
              \E j \in 1..Len(DeliveredIds(c)) : DeliveredIds(c)[j] > d

\* ------------------------------------------------------------------------
\* subscribe is inside its with block, at the replay loop.
Replaying(c) == cpc[c] = "L47"

\* The q.put of line 49 is about to run on a full queue, where it blocks.
ReplayWaits(c) ==
    /\ Replaying(c)
    /\ clocal[c].idx <= Len(history)
    /\ Replays(history[clocal[c].idx].id, clocal[c].last_id)
    /\ QueueFull(c)

\* C22: subscribe never waits while it holds the lock: during the replay the
\* lock is held, the history holds at most HISTORY_SIZE records, the fresh
\* mailbox holds at most the records replayed so far, fewer than its
\* capacity, and so no q.put of the replay finds the queue full.
C22_ReplayNeverWaits ==
    \A c \in Conns :
        Replaying(c) =>
            /\ lock = c
            /\ Len(history) <= HISTORY_SIZE
            /\ Len(mailbox[c]) < clocal[c].idx
            /\ Len(mailbox[c]) < MAILBOX_SIZE
            /\ ~ReplayWaits(c)

\* A replay has put a whole full history into the mailbox, still holding the
\* lock, while a producer waits for the lock.
C22_Witness ==
    \E c \in Conns :
        /\ ReplayDone(c) /\ lock = c
        /\ Len(mailbox[c]) = HISTORY_SIZE
        /\ \E p \in Producers : ppc[p] = "L62"

\* ------------------------------------------------------------------------
\* C23: also when calls of start overlap, at most one listener and one accept
\* loop are created, and all calls that return a port return the same one,
\* the port of that listener.
C23_ConcurrentStartBindsOnce ==
    /\ Cardinality(listeners) <= 1
    /\ Cardinality(loops) <= 1
    /\ \A t \in Starters : \A u \in Starters :
           (Succeeded(t) /\ Succeeded(u)) => slocal[t].ret = slocal[u].ret
    /\ \A t \in Starters : Succeeded(t) => slocal[t].ret \in listeners

\* ------------------------------------------------------------------------
\* A call of push by p ends in the exception of json.dumps (line 61).  (A
\* further failing call of the same producer changes no variable at all.)
SerializationFails(p) == ppc[p] = "idle" /\ ppc'[p] = "raised"

BusUntouched ==
    /\ next_id' = next_id
    /\ history' = history
    /\ subscribers' = subscribers
    /\ mailbox' = mailbox
    /\ lock' = lock
    /\ log' = log

\* Ids are consumed by the calls that serialized their payload and reached
\* line 63, by no other.
IdsOnlyForSerialized ==
    next_id = 1 + started - Cardinality({p \in Producers : ppc[p] \in {"L62", "L63"}})

\* C24: a push whose payload cannot be serialized leaves the bus as it was:
\* no id consumed, nothing appended to the history, nothing put into any
\* mailbox; the ids of the publishes that succeed stay 1, 2, 3, ... without a
\* gap.
C24_FailedPushLeavesBus ==
    /\ []IdsOnlyForSerialized
    /\ [](\A k \in 1..Len(log) : log[k].id = k)
    /\ [][\A p \in Producers : SerializationFails(p) => BusUntouched]_vars

\* A push has failed on its payload after events were published, and the
\* other producer has since taken the very next id.
C24_Witness ==
    \E p \in Producers : \E q \in Producers \ {p} :
        /\ ppc[p] = "raised"
        /\ ppc[q] = "L65"
        /\ plocal[q].eid = Len(log) + 1
        /\ Len(log) >= 1
        /\ \E c \in Conns : Registered(c)

====
